---- MODULE Spec2Model ----
(***************************************************************************)
(* A model of the Emacs Lisp launcher of rules_elisp (src/elisp/exec.cc):  *)
(* the three entry points RunEmacs, RunBinary and RunTest, the Executor    *)
(* they drive, and the helpers that build the child's argument vector,     *)
(* its environment, the sandbox manifest and the XML test report.          *)
(*                                                                         *)
(* Strings are sequences of atoms (an atom is a TLA+ string standing for a *)
(* run of characters), so StrCat is sequence concatenation and the empty   *)
(* string is << >>.  A vector of strings is a sequence of such sequences.  *)
(***************************************************************************)
EXTENDS Integers, Sequences, FiniteSets, TLC

VARIABLES
    pc,             \* position of the entry point / Executor method
    entry,          \* which entry point was called, with its parameters
    orig_args_,     \* Executor::orig_args_
    orig_env_,      \* Executor::orig_env_ (name -> value)
    runfiles_,      \* Executor::runfiles_: Rlocation answers given so far
    args,           \* the local vector `args` of RunBinary / RunTest
    loop,           \* AddLoadPath: index into load_path, handler flag
    manifest,       \* the optional<TempFile> `manifest`
    report_file,    \* the optional<TempFile> `report_file`
    child,          \* the spawned process, as the operating system sees it
    status_or_code, \* the StatusOr<int> the Executor method returned
    code,           \* the local `code`: what Executor::Run returned
    xml_file,       \* the file named by XML_OUTPUT_FILE
    clog,           \* what was written to std::clog
    result,         \* what the entry point returned (or "abort")
    call,           \* arguments of a helper called on its own
    ret             \* what that helper returned

vars == <<pc, entry, orig_args_, orig_env_, runfiles_, args, loop, manifest,
          report_file, child, status_or_code, code, xml_file, clog, result,
          call, ret>>

launcherVars == <<pc, entry, orig_args_, orig_env_, runfiles_, args, loop,
                  manifest, report_file, child, status_or_code, code, xml_file,
                  clog, result>>

(***************************************************************************)
(* Bounds of the model.                                                    *)
(***************************************************************************)
MaxArgs == 2        \* longest argument list / prefix drawn for BuildArgs
MaxTests == 3       \* longest test list drawn for ConvertReport
MaxRand == 1        \* random draws come from 0..MaxRand
MaxDraws == 5       \* successive names drawn from one generator
MaxArgc == 3        \* longest argument list drawn for ExtractArgFiles
MaxIndices == 2     \* largest index set drawn for ExtractArgFiles
MaxData == 2        \* longest data-file list drawn for WriteManifest
MaxLoadPath == 2    \* longest load path the launcher is called with

(***************************************************************************)
(* Generic helpers on sequences.                                           *)
(***************************************************************************)
SeqsUpTo(S, n) == UNION {[1..k -> S] : k \in 0..n}

Range(s) == {s[i] : i \in DOMAIN s}

StartsWith(s, p) == Len(s) >= Len(p) /\ SubSeq(s, 1, Len(p)) = p

EndsWith(s, p) ==
    Len(s) >= Len(p) /\ SubSeq(s, Len(s) - Len(p) + 1, Len(s)) = p

\* The launcher is idle while a helper is checked on its own.
NoFile == [state |-> "none", path |-> <<>>, content |-> <<>>]

NoChild == [state |-> "none", binary |-> <<>>, argv |-> <<>>, envp |-> <<>>,
            status |-> 0]

NoXml == [written |-> FALSE]

NoLauncher ==
    /\ pc = "idle" /\ entry = [name |-> "none"] /\ orig_args_ = <<>>
    /\ orig_env_ = <<>> /\ runfiles_ = <<>> /\ args = <<>>
    /\ loop = [i |-> 0, installed |-> FALSE] /\ manifest = NoFile
    /\ report_file = NoFile /\ child = NoChild
    /\ status_or_code = [kind |-> "none"] /\ code = 0 /\ xml_file = NoXml
    /\ clog = <<>>
    /\ result = [kind |-> "none"]

Pending == [state |-> "pending"]

Returned(v) == [state |-> "done", value |-> v]

(***************************************************************************)
(* Executor::BuildArgs (exec.cc:482-488).                                  *)
(***************************************************************************)
BuildArgsAppend(orig, prefix) ==
    <<orig[1]>> \o SubSeq(orig, 2, Len(orig)) \o prefix

BuildArgs(orig, prefix) ==
    LET vec0 == <<orig[1]>>                          \* vec{orig_args_.at(0)}
        vec1 == vec0 \o prefix                       \* insert prefix at end
        vec2 == vec1 \o SubSeq(orig, 2, Len(orig))   \* insert next(begin)..end
    IN vec2

(***************************************************************************)
(* Executor::BuildEnv (exec.cc:490-502).  An Environment is a function     *)
(* from the names it defines to their values.  flat_hash_map::insert keeps *)
(* the value of a key that is already present.                             *)
(***************************************************************************)
\* Every variable name of the model, in the order of the NAME= strings.
EnvNames == <<"A", "B", "C", "COVERAGE", "COVERAGE_DIR", "EMACSDATA",
              "EMACSDOC", "EMACSLOADPATH", "EMACSPATH", "RUNFILES_DIR",
              "TEST_TMPDIR", "XML_OUTPUT_FILE">>

NameOrd(n) == CHOOSE i \in DOMAIN EnvNames : EnvNames[i] = n

MapInsert(map, other) ==
    [n \in DOMAIN map \cup DOMAIN other |->
        IF n \in DOMAIN map THEN map[n] ELSE other[n]]

\* absl::c_sort of the NAME=VALUE strings; a name is one atom and no two
\* entries share a name, so the order of the strings is that of EnvNames.
RECURSIVE SortedPairs(_)
SortedPairs(map) ==
    IF DOMAIN map = {} THEN <<>>
    ELSE LET n == CHOOSE x \in DOMAIN map :
                    \A y \in DOMAIN map : NameOrd(x) <= NameOrd(y)
         IN <<(<<n, "=">> \o map[n])>> \o
            SortedPairs([m \in DOMAIN map \ {n} |-> map[m]])

BuildEnvOrigFirst(pairs, other, orig) ==
    SortedPairs(MapInsert(MapInsert(pairs, orig), other))

BuildEnv(pairs, other, orig) ==
    LET map0 == pairs                     \* Environment map(pairs.begin(), ..)
        map1 == MapInsert(map0, other)    \* map.insert(other...)
        map2 == MapInsert(map1, orig)     \* map.insert(orig_env_...)
    IN SortedPairs(map2)

(***************************************************************************)
(* BuildEnv on its own: the three maps are drawn from all partial maps of  *)
(* EnvNames to EnvValues, and the triple the specification gives as its    *)
(* example is added.                                                       *)
(***************************************************************************)
PartialMaps(N, V) == UNION {[D -> V] : D \in SUBSET N}

MergeNames == {"A", "B", "C"}
MergeValues == {<<"1">>, <<"2">>}

ExamplePairs == [n \in {"A"} |-> <<"1">>]
ExampleOther == [n \in {"A", "B"} |-> IF n = "A" THEN <<"2">> ELSE <<"3">>]
ExampleOrig == [n \in {"A", "C"} |-> IF n = "A" THEN <<"4">> ELSE <<"5">>]

InitEnv ==
    /\ NoLauncher
    /\ ret = Pending
    /\ \/ \E p, o, e \in PartialMaps(MergeNames, MergeValues) :
              call = [fn |-> "BuildEnv", pairs |-> p, other |-> o, orig |-> e]
       \/ call = [fn |-> "BuildEnv", pairs |-> ExamplePairs,
                  other |-> ExampleOther, orig |-> ExampleOrig]

CallBuildEnv ==
    /\ call.fn = "BuildEnv" /\ ret = Pending
    /\ ret' = Returned(BuildEnv(call.pairs, call.other, call.orig))
    /\ UNCHANGED <<launcherVars, call>>

SpecEnv == InitEnv /\ [][CallBuildEnv]_vars

\* The merged map read back from the NAME=VALUE vector.
EnvOf(vec) == {<<vec[i][1], SubSeq(vec[i], 3, Len(vec[i]))>> : i \in DOMAIN vec}

EnvDone == call.fn = "BuildEnv" /\ ret.state = "done"

Defined(n) ==
    n \in DOMAIN call.pairs \cup DOMAIN call.other \cup DOMAIN call.orig

\* C1 as stated: envOverrides first, then the runfiles-library variables,
\* then the original environment.
C1_OverridesBeatRunfiles ==
    EnvDone =>
        EnvOf(ret.value) =
            {<<n, IF n \in DOMAIN call.other THEN call.other[n]
                  ELSE IF n \in DOMAIN call.pairs THEN call.pairs[n]
                  ELSE call.orig[n]>> : n \in {m \in MergeNames : Defined(m)}}

\* C1 amended: the merged environment gives each name the value of the
\* runfiles-library variables if they define it, otherwise the value of
\* envOverrides if it defines it, otherwise the value of the original
\* environment; it has one NAME=VALUE entry per defined name and no other.
C1_RunfilesBeatOverrides ==
    EnvDone =>
        /\ Len(ret.value) = Cardinality({m \in MergeNames : Defined(m)})
        /\ \A i \in DOMAIN ret.value : ret.value[i][2] = "="
        /\ EnvOf(ret.value) =
            {<<n, IF n \in DOMAIN call.pairs THEN call.pairs[n]
                  ELSE IF n \in DOMAIN call.other THEN call.other[n]
                  ELSE call.orig[n]>> : n \in {m \in MergeNames : Defined(m)}}

\* The specification's example: runfiles {A:1}, overrides {A:2,B:3},
\* original {A:4,C:5}; the code yields A=1, B=3, C=5.
C1_Witness ==
    /\ EnvDone
    /\ call.pairs = ExamplePairs /\ call.other = ExampleOther
    /\ call.orig = ExampleOrig
    /\ ret.value = <<(<<"A", "=", "1">>), (<<"B", "=", "3">>), (<<"C", "=", "5">>)>>

(***************************************************************************)
(* BuildArgs on its own: original argument lists of length >= 1 and        *)
(* prefixes, both over a few argument strings (the empty string included). *)
(***************************************************************************)
ArgStrings == {<<"prog">>, <<"x">>, <<"y">>, <<>>}

InitArgs ==
    /\ NoLauncher
    /\ ret = Pending
    /\ \E o \in SeqsUpTo(ArgStrings, MaxArgs + 1) \ {<<>>},
          p \in SeqsUpTo(ArgStrings, MaxArgs) :
              call = [fn |-> "BuildArgs", orig |-> o, prefix |-> p]

CallBuildArgs ==
    /\ call.fn = "BuildArgs" /\ ret = Pending
    /\ ret' = Returned(BuildArgs(call.orig, call.prefix))
    /\ UNCHANGED <<launcherVars, call>>

SpecArgs == InitArgs /\ [][CallBuildArgs]_vars

\* C7: the vector BuildArgs returns is argv[0], then the extra arguments in
\* order, then the original arguments after argv[0] in order: nothing is
\* dropped, duplicated or reordered.
C7_BuildArgsOrder ==
    (call.fn = "BuildArgs" /\ ret.state = "done") =>
        LET v == ret.value
            n == Len(call.orig)
            k == Len(call.prefix)
        IN /\ Len(v) = n + k
           /\ v[1] = call.orig[1]
           /\ \A i \in 1..k : v[1 + i] = call.prefix[i]
           /\ \A j \in 2..n : v[k + j] = call.orig[j]

C7_Witness ==
    /\ call.fn = "BuildArgs" /\ ret.state = "done"
    /\ call.orig = <<(<<"prog">>), (<<"x">>), (<<"y">>)>>
    /\ call.prefix = <<(<<"y">>), (<<"x">>)>>
    /\ ret.value = <<(<<"prog">>), (<<"y">>), (<<"x">>), (<<"x">>), (<<"y">>)>>

(***************************************************************************)
(* ConvertReport (exec.cc:202-267): the part that turns the parsed         *)
(* TestReport into XML.  A test is [expected, status]; the XML is kept as  *)
(* the attributes of the two suite elements and, per testcase, the names   *)
(* of its child elements.                                                  *)
(***************************************************************************)
TestStatuses == {"PASSED", "FAILED", "ABORTED"}

Tests == [expected : BOOLEAN, status : TestStatuses]

Digits == <<"0", "1", "2", "3", "4", "5", "6", "7", "8", "9">>

\* absl::StrCat of an integer: its decimal digits.
RECURSIVE StrCatInt(_)
StrCatInt(n) ==
    IF n < 0 THEN <<"-">> \o StrCatInt(-n)
    ELSE IF n < 10 THEN <<Digits[n + 1]>>
    ELSE StrCatInt(n \div 10) \o <<Digits[(n % 10) + 1]>>

\* std::count_if with the predicate !test.expected() (exec.cc:223-225).
RECURSIVE CountUnexpected(_)
CountUnexpected(tests) ==
    IF tests = <<>> THEN 0
    ELSE (IF ~Head(tests).expected THEN 1 ELSE 0)
         + CountUnexpected(Tail(tests))

RECURSIVE CountFailedAnyExpectation(_)
CountFailedAnyExpectation(tests) ==
    IF tests = <<>> THEN 0
    ELSE (IF Head(tests).status = "FAILED" THEN 1 ELSE 0)
         + CountFailedAnyExpectation(Tail(tests))

\* std::count_if with !test.expected() && test.status() == FAILED
\* (exec.cc:226-229).
RECURSIVE CountFailures(_)
CountFailures(tests) ==
    IF tests = <<>> THEN 0
    ELSE (IF ~Head(tests).expected /\ Head(tests).status = "FAILED"
          THEN 1 ELSE 0)
         + CountFailures(Tail(tests))

\* The children of one testcase element (exec.cc:252-257).
TestcaseChildren(test) ==
    IF ~test.expected
    THEN <<IF test.status = "FAILED" THEN "failure" ELSE "error">>
    ELSE <<>>

ConvertReportXml(tests) ==
    LET total == Len(tests)
        unexpected == CountUnexpected(tests)
        failures == CountFailures(tests)
        errors == unexpected - failures
        total_str == StrCatInt(total)
        failures_str == StrCatInt(failures)
        errors_str == StrCatInt(errors)
    IN [testsuites |-> [tests |-> total_str, failures |-> failures_str],
        testsuite |-> [id |-> <<"0">>, tests |-> total_str,
                       failures |-> failures_str, errors |-> errors_str],
        testcases |-> [i \in DOMAIN tests |-> TestcaseChildren(tests[i])]]

InitReport ==
    /\ NoLauncher
    /\ ret = Pending
    /\ \E t \in SeqsUpTo(Tests, MaxTests) :
          call = [fn |-> "ConvertReport", tests |-> t]

CallConvertReport ==
    /\ call.fn = "ConvertReport" /\ ret = Pending
    /\ ret' = Returned(ConvertReportXml(call.tests))
    /\ UNCHANGED <<launcherVars, call>>

SpecReport == InitReport /\ [][CallConvertReport]_vars

ReportDone == call.fn = "ConvertReport" /\ ret.state = "done"

ChildCount(xml, element) ==
    Cardinality({i \in DOMAIN xml.testcases : xml.testcases[i] = <<element>>})

\* C9: testsuite carries tests = number of tests, failures = number of
\* unexpected FAILED tests, errors = unexpected - failures >= 0; an
\* unexpected test has exactly one child (failure if FAILED, error
\* otherwise), an expected test has none, so the children counted by name
\* equal the two attributes.
C9_ReportCounts ==
    ReportDone =>
        LET t == call.tests
            xml == ret.value
            unexp == {i \in DOMAIN t : ~t[i].expected}
            failed == {i \in unexp : t[i].status = "FAILED"}
        IN /\ xml.testsuite.tests = StrCatInt(Len(t))
           /\ xml.testsuite.failures = StrCatInt(Cardinality(failed))
           /\ xml.testsuite.errors =
                  StrCatInt(Cardinality(unexp) - Cardinality(failed))
           /\ Head(xml.testsuite.errors) # "-"
           /\ \A i \in DOMAIN t :
                  xml.testcases[i] =
                      IF i \in failed THEN <<"failure">>
                      ELSE IF i \in unexp THEN <<"error">> ELSE <<>>
           /\ xml.testsuite.failures = StrCatInt(ChildCount(xml, "failure"))
           /\ xml.testsuite.errors = StrCatInt(ChildCount(xml, "error"))

\* Three tests: one unexpected FAILED, one unexpected ABORTED, one expected
\* FAILED; tests=3 failures=1 errors=1.
C9_Witness ==
    /\ ReportDone
    /\ call.tests = <<[expected |-> FALSE, status |-> "FAILED"],
                      [expected |-> FALSE, status |-> "ABORTED"],
                      [expected |-> TRUE, status |-> "FAILED"]>>
    /\ ret.value.testsuite.tests = <<"3">>
    /\ ret.value.testsuite.failures = <<"1">>
    /\ ret.value.testsuite.errors = <<"1">>
    /\ ret.value.testcases = <<(<<"failure">>), (<<"error">>), <<>>>>

(***************************************************************************)
(* Temporary-file names (internal/random.h, used through TempFile::Create  *)
(* at exec.cc:157 and exec.cc:392; exercised by random_test.cc).  The      *)
(* pattern's "*" is replaced by the hexadecimal form of a number drawn     *)
(* from the generator.  What the generator draws is not determined by the  *)
(* program: every value of its range is a possible draw.                   *)
(***************************************************************************)
HexDigits == <<"0", "1", "2", "3", "4", "5", "6", "7", "8", "9",
               "a", "b", "c", "d", "e", "f">>

\* Two hexadecimal digits, zero padded.
Hex(r) == <<HexDigits[((r \div 16) % 16) + 1], HexDigits[(r % 16) + 1]>>

StarPos(pattern) == CHOOSE i \in DOMAIN pattern : pattern[i] = "*"

PatternPrefix(pattern) == SubSeq(pattern, 1, StarPos(pattern) - 1)

PatternSuffix(pattern) ==
    SubSeq(pattern, StarPos(pattern) + 1, Len(pattern))

TempNameNoDraw(pattern, r) ==
    PatternPrefix(pattern) \o Hex(0) \o PatternSuffix(pattern)

TempName(pattern, r) ==
    PatternPrefix(pattern) \o Hex(r) \o PatternSuffix(pattern)

TestPattern == <<"temp-", "*", ".json">>          \* random_test.cc:29
ManifestPattern == <<"manifest-", "*", ".json">>  \* exec.cc:157
ReportPattern == <<"test-report-", "*", ".json">> \* exec.cc:392

InitTemp ==
    /\ NoLauncher
    /\ \E pat \in {TestPattern, ManifestPattern, ReportPattern} :
          call = [fn |-> "temp_name", pattern |-> pat]
    /\ ret = [state |-> "done", draws |-> <<>>, names |-> <<>>]

\* rnd.temp_name(pattern): one more name from the same generator.
CallTempName ==
    /\ call.fn = "temp_name" /\ Len(ret.names) < MaxDraws
    /\ \E r \in 0..MaxRand :
          ret' = [ret EXCEPT !.draws = Append(@, r),
                             !.names = Append(@, TempName(call.pattern, r))]
    /\ UNCHANGED <<launcherVars, call>>

SpecTemp == InitTemp /\ [][CallTempName]_vars

KeepsPrefixAndSuffix(name, pattern) ==
    /\ StartsWith(name, PatternPrefix(pattern))
    /\ EndsWith(name, PatternSuffix(pattern))
    /\ Len(name) > Len(PatternPrefix(pattern)) + Len(PatternSuffix(pattern))

WorkingDirectory == <<"/", "cwd">>

RunfilesRoot == <<"/", "cwd">>

StripQuote(arg) ==
    IF arg # <<>> /\ Head(arg) = "/:" THEN Tail(arg) ELSE arg

MakeAbsoluteIn(dir, file) ==
    IF file # <<>> /\ Head(file) = "/" THEN file ELSE dir \o <<"/">> \o file

\* The file relative to root, or an error when it is not below root.
MakeRelative(file, root) ==
    IF StartsWith(file, root \o <<"/">>) /\ Len(file) > Len(root) + 1
    THEN [ok |-> TRUE, file |-> SubSeq(file, Len(root) + 2, Len(file))]
    ELSE [ok |-> FALSE, file |-> <<>>]

ArgFile(arg, root) ==
    LET abs == MakeAbsoluteIn(WorkingDirectory, StripQuote(arg))
    IN IF root = <<>> THEN [ok |-> TRUE, file |-> abs]
       ELSE MakeRelative(abs, root)

\* The indices in ascending order.
RECURSIVE SortedIndices(_)
SortedIndices(S) ==
    IF S = {} THEN <<>>
    ELSE LET lo == CHOOSE x \in S : \A y \in S : x <= y
         IN <<lo>> \o SortedIndices(S \ {lo})

NormalizeIndexNoWrap(i, argc) == i

NormalizeIndex(i, argc) == IF i < 0 THEN i + argc ELSE i

RECURSIVE ExtractLoop(_, _, _, _)
ExtractLoop(originalArgs, sorted, root, acc) ==
    IF sorted = <<>> THEN [ok |-> TRUE, files |-> acc]
    ELSE LET i == NormalizeIndex(Head(sorted), Len(originalArgs))
         IN IF i < 0 \/ i >= Len(originalArgs)
            THEN ExtractLoop(originalArgs, Tail(sorted), root, acc)
            ELSE LET f == ArgFile(originalArgs[i + 1], root)
                 IN IF ~f.ok THEN [ok |-> FALSE, files |-> <<>>]
                    ELSE ExtractLoop(originalArgs, Tail(sorted), root,
                                     Append(acc, f.file))

ExtractArgFiles(originalArgs, indices, root) ==
    ExtractLoop(originalArgs, SortedIndices(indices), root, <<>>)

ExtractArgs ==
    {<<"a">>, <<"b">>, <<"/:", "/", "cwd", "/", "c">>, <<"/", "etc">>}

InitExtract ==
    /\ NoLauncher
    /\ ret = Pending
    /\ \E a \in SeqsUpTo(ExtractArgs, MaxArgc),
          ix \in SUBSET ((0 - MaxArgc - 1)..(MaxArgc + 1)),
          root \in {<<>>, RunfilesRoot} :
              /\ Cardinality(ix) <= MaxIndices
              /\ call = [fn |-> "ExtractArgFiles", originalArgs |-> a,
                         indices |-> ix, root |-> root]

CallExtractArgFiles ==
    /\ call.fn = "ExtractArgFiles" /\ ret = Pending
    /\ ret' = Returned(ExtractArgFiles(call.originalArgs, call.indices,
                                       call.root))
    /\ UNCHANGED <<launcherVars, call>>

SpecExtract == InitExtract /\ [][CallExtractArgFiles]_vars

ExtractDone == call.fn = "ExtractArgFiles" /\ ret.state = "done"

\* The element of the argument list that index i stands for: counted from
\* the front for i >= 0 and from the back (-k is N-k) for i < 0.
Selected(i) ==
    LET N == Len(call.originalArgs)
    IN IF i >= 0 THEN i + 1 ELSE N + i + 1

InRange(i) == Selected(i) \in DOMAIN call.originalArgs

\* C8: index -k selects the element index N-k selects; an index out of
\* [0, N) after normalization is dropped and never makes the call fail;
\* the selected arguments come out in ascending order of index.
C8_NegativeIndexing ==
    ExtractDone =>
        LET used == {i \in call.indices : InRange(i)}
            file(i) == ArgFile(call.originalArgs[Selected(i)], call.root)
        IN /\ ret.value.ok <=> \A i \in used : file(i).ok
           /\ ret.value.ok =>
                /\ Len(ret.value.files) = Cardinality(used)
                /\ \A i \in used :
                     ret.value.files[1 + Cardinality({j \in used : j < i})]
                         = file(i).file

\* Three arguments, indices {-1, 0, 7}: -1 is argument 2, 7 is dropped.
C8_Witness ==
    /\ ExtractDone
    /\ call.originalArgs = <<(<<"a">>), (<<"b">>),
                             (<<"/:", "/", "cwd", "/", "c">>)>>
    /\ call.indices = {-1, 0}
    /\ call.root = RunfilesRoot
    /\ ret.value = [ok |-> TRUE, files |-> <<(<<"c">>), (<<"a">>)>>]

(***************************************************************************)
(* The manifest (exec.cc:163-194).  A filename is absolute when it starts  *)
(* with "/" (IsAbsolute of elisp/file.h).  AddToManifest aborts the        *)
(* process at the first absolute name when absolute names are forbidden,   *)
(* and otherwise appends the names to the field in the order given.        *)
(***************************************************************************)
IsAbsolute(file) == file # <<>> /\ Head(file) = "/"

AddToManifestAllowAll(files, field, absolute) ==
    [abort |-> FALSE, field |-> field \o files]

AddToManifest(files, field, absolute) ==
    IF absolute = "kForbid" /\ \E i \in DOMAIN files : IsAbsolute(files[i])
    THEN [abort |-> TRUE, field |-> field]
    ELSE [abort |-> FALSE, field |-> field \o files]

RUNFILES_ROOT == <<"RUNFILES_ROOT">>

\* MessageToJsonString: the fields in declaration order, a field that is
\* empty left out.
MessageToJsonString(m) ==
    LET fld(key, value) == IF value = <<>> THEN <<>> ELSE <<(<<key, value>>)>>
    IN fld("root", m.root) \o fld("loadPath", m.load_path)
       \o fld("inputFiles", m.input_files)
       \o fld("outputFiles", m.output_files)

\* The Manifest message WriteManifest fills in, or the abort on the way.
BuildManifest(load_path, load_files, data_files, output_files) ==
    LET lp == AddToManifest(load_path, <<>>, "kForbid")
        f1 == AddToManifest(load_files, <<>>, "kForbid")
        f2 == AddToManifest(data_files, f1.field, "kForbid")
        out == AddToManifest(output_files, <<>>, "kAllow")
    IN IF lp.abort \/ f1.abort \/ f2.abort \/ out.abort
       THEN [abort |-> TRUE]
       ELSE [abort |-> FALSE,
             message |-> [root |-> RUNFILES_ROOT, load_path |-> lp.field,
                          input_files |-> f2.field,
                          output_files |-> out.field]]

ManifestPaths == {<<"a">>, <<"b">>, <<"/", "c">>}

Reorderings(s) ==
    {t \in [DOMAIN s -> Range(s)] :
        \E f \in [DOMAIN s -> DOMAIN s] :
            /\ \A i, j \in DOMAIN s : f[i] = f[j] => i = j
            /\ \A i \in DOMAIN s : t[i] = s[f[i]]}

\* Two invocations of the manifest writer: the same load path, load files
\* and output files, and the same data files in two orders.
InitManifest ==
    /\ NoLauncher
    /\ ret = [state |-> "done", written |-> <<>>]
    /\ \E lp \in SeqsUpTo(ManifestPaths, 1), lf \in SeqsUpTo(ManifestPaths, 1),
          df \in SeqsUpTo(ManifestPaths, MaxData),
          out \in SeqsUpTo(ManifestPaths, 1) :
          \E df2 \in Reorderings(df) :
              call = [fn |-> "WriteManifest", load_path |-> lp,
                      load_files |-> lf, output_files |-> out,
                      data_files |-> <<df, df2>>]

\* WriteManifest of the next invocation; the abort ends the process.
CallWriteManifest ==
    /\ call.fn = "WriteManifest" /\ ret.state = "done"
    /\ Len(ret.written) < 2
    /\ LET m == BuildManifest(call.load_path, call.load_files,
                              call.data_files[Len(ret.written) + 1],
                              call.output_files)
       IN ret' = IF m.abort THEN [state |-> "abort", written |-> ret.written]
                 ELSE [ret EXCEPT !.written =
                           Append(@, MessageToJsonString(m.message))]
    /\ UNCHANGED <<launcherVars, call>>

SpecManifest == InitManifest /\ [][CallWriteManifest]_vars

\* C6: two invocations of the manifest writer whose load path is equal and
\* whose data files are equal as sets but given in different orders write
\* byte-identical manifests.
C6_ManifestDeterministic ==
    (call.fn = "WriteManifest" /\ Len(ret.written) = 2) =>
        ret.written[1] = ret.written[2]

(***************************************************************************)
(* The launcher: the entry points RunEmacs, RunBinary and RunTest          *)
(* (exec.cc:506-560) and the Executor methods they call.  Each action is   *)
(* one step of the straight-line code; a step that can fail has one        *)
(* outcome per way the library call under it can end.                      *)
(***************************************************************************)
EXIT_FAILURE == 1
SignalCode == 255
ExitStatuses == {0, 7}

OkStatus == [ok |-> TRUE, code |-> "kOk", what |-> "ok"]

ErrorStatus(c, what) == [ok |-> FALSE, code |-> c, what |-> what]

Wrapper == <<"wrapper">>
InstallRel == <<"install">>
RunnerElc == <<"phst_rules_elisp/elisp/ert/runner.elc">>
RunfilesElc == <<"phst_rules_elisp/elisp/runfiles/runfiles.elc">>

JoinPath(a, b) == a \o <<"/">> \o b

TempDir == <<"/", "tmp">>

\* What Rlocation maps a logical name to when it maps it at all; the result
\* is already absolute, so MakeAbsolute leaves it alone.
Rlocation(rel) ==
    IF IsAbsolute(rel) THEN rel ELSE JoinPath(<<"/", "runfiles">>, rel)

\* Executor::Runfile (exec.cc:423-431): the runfiles mapping answers the
\* same way each time it is asked about a name.
RunfileOutcomes(rel) ==
    IF rel \in DOMAIN runfiles_ THEN {runfiles_[rel]}
    ELSE {"kOk", "kNotFound", "kUnknown"}

RunfilesWith(map, rel, o) ==
    [n \in DOMAIN map \cup {rel} |-> IF n = rel THEN o ELSE map[n]]

RunfileStatus(rel, o) ==
    IF o = "kOk" THEN OkStatus ELSE ErrorStatus(o, "Runfile")

\* Executor::EnvVar (exec.cc:433-436).
EnvVar(name) == IF name \in DOMAIN orig_env_ THEN orig_env_[name] ELSE <<>>

\* runfiles_->EnvVars().
RunfilesEnvVars == [n \in {"RUNFILES_DIR"} |-> <<"/", "runfiles">>]

\* The process environment RunTest may find.
TestEnvironment(xml, coverage) ==
    [n \in {"TEST_TMPDIR"}
           \cup (IF xml THEN {"XML_OUTPUT_FILE"} ELSE {})
           \cup (IF coverage THEN {"COVERAGE", "COVERAGE_DIR"} ELSE {}) |->
       CASE n = "TEST_TMPDIR" -> <<"/", "tmp">>
         [] n = "XML_OUTPUT_FILE" -> <<"/", "out", "/", "test.xml">>
         [] n = "COVERAGE" -> <<"1">>
         [] n = "COVERAGE_DIR" -> <<"/", "cov">>]

Prog == <<"prog">>
\* The command lines: one argument, which may be the empty string.
Arguments == {<<Prog, <<"x">>>>, <<Prog, <<>>>>}
LauncherPaths == {<<"a">>, <<"/", "c">>}
\* The load files (or test sources) and data files of one call.
FileInputs ==
    {[files |-> <<>>, data_files |-> <<>>],
     [files |-> <<(<<"a">>)>>, data_files |-> <<(<<"b">>)>>],
     [files |-> <<(<<"/", "c">>)>>, data_files |-> <<>>],
     [files |-> <<>>, data_files |-> <<(<<"/", "c">>)>>]}
Modes == {"kDirect", "kWrap"}

Init ==
    /\ pc = "main" /\ entry = [name |-> "none"] /\ orig_args_ = <<>>
    /\ orig_env_ = <<>> /\ runfiles_ = <<>> /\ args = <<>>
    /\ loop = [i |-> 0, installed |-> FALSE] /\ manifest = NoFile
    /\ report_file = NoFile /\ child = NoChild
    /\ status_or_code = [kind |-> "none"] /\ code = 0 /\ xml_file = NoXml
    /\ clog = <<>> /\ result = [kind |-> "none"]
    /\ call = [fn |-> "main"] /\ ret = Pending

\* The head of an entry point: Executor::Create (CreateForTest) takes argv
\* and the environment, or fails, which is logged and ends the call.
Enter(e, argv, env) ==
    /\ pc = "main"
    /\ entry' = e
    /\ \/ /\ clog' = Append(clog,
                        ErrorStatus("kFailedPrecondition", "CreateRunfiles"))
          /\ result' = [kind |-> "returned", value |-> EXIT_FAILURE]
          /\ pc' = "done"
          /\ UNCHANGED <<orig_args_, orig_env_>>
       \/ /\ orig_args_' = argv /\ orig_env_' = env
          /\ pc' = "Runfile"
          /\ UNCHANGED <<clog, result>>
    /\ UNCHANGED <<runfiles_, args, loop, manifest, report_file, child,
                   status_or_code, code, xml_file, call, ret>>

RunEmacs ==
    \E argv \in Arguments :
        Enter([name |-> "RunEmacs", mode |-> "kDirect", load_path |-> <<>>,
               files |-> <<>>, data_files |-> <<>>], argv, <<>>)

RunBinary ==
    \E mode \in Modes, load_path \in SeqsUpTo(LauncherPaths, MaxLoadPath),
       inp \in FileInputs, argv \in Arguments :
        Enter([name |-> "RunBinary", mode |-> mode, load_path |-> load_path,
               files |-> inp.files, data_files |-> inp.data_files], argv, <<>>)

RunTest ==
    \E mode \in Modes, load_path \in SeqsUpTo(LauncherPaths, MaxLoadPath),
       inp \in FileInputs, argv \in Arguments,
       xml \in BOOLEAN, coverage \in BOOLEAN :
        Enter([name |-> "RunTest", mode |-> mode, load_path |-> load_path,
               files |-> inp.files, data_files |-> inp.data_files], argv,
              TestEnvironment(xml, coverage))

\* RETURN_IF_ERROR / ASSIGN_OR_RETURN: the method returns the error.
Fail(status) ==
    /\ status_or_code' = [kind |-> "error", status |-> status]
    /\ pc' = "return"

\* this->Runfile(wrapper) or this->Runfile(install_rel), the first
\* statement of each method (exec.cc:336, 353, 377).
RunfileWrapper ==
    /\ pc = "Runfile"
    /\ LET rel == IF entry.name = "RunEmacs" THEN InstallRel ELSE Wrapper
       IN \E o \in RunfileOutcomes(rel) :
           /\ runfiles_' = RunfilesWith(runfiles_, rel, o)
           /\ IF o = "kOk"
              THEN /\ pc' = IF entry.name = "RunEmacs" THEN "GetSharedDir"
                            ELSE "AddManifest"
                   /\ UNCHANGED status_or_code
              ELSE Fail(RunfileStatus(rel, o))
    /\ UNCHANGED <<entry, orig_args_, orig_env_, args, loop, manifest,
                   report_file, child, code, xml_file, clog, result, call,
                   ret>>

\* GetSharedDir (exec.cc:134-150): the directory cannot be opened, holds no
\* version directory, holds several, or holds one.
GetSharedDir ==
    /\ pc = "GetSharedDir"
    /\ \E o \in {"kOk", "kNotFound", "kFailedPrecondition", "kUnknown"} :
           IF o = "kOk"
           THEN pc' = "Run" /\ UNCHANGED status_or_code
           ELSE Fail(ErrorStatus(o, "GetSharedDir"))
    /\ UNCHANGED <<entry, orig_args_, orig_env_, runfiles_, args, loop,
                   manifest, report_file, child, code, xml_file, clog, result,
                   call, ret>>

\* AddManifest (exec.cc:152-161) once TempFile::Create has succeeded with
\* the name drawn as r: the file it returns and the arguments it leaves.
AddManifestNoSeparator(mode, vec, r) ==
    IF mode = "kDirect" THEN [file |-> NoFile, args |-> vec]
    ELSE LET path == JoinPath(TempDir, TempName(ManifestPattern, r))
         IN [file |-> [state |-> "open", path |-> path, content |-> <<>>],
             args |-> vec \o <<(<<"--manifest=">> \o path)>>]

AddManifest(mode, vec, r) ==
    IF mode = "kDirect" THEN [file |-> NoFile, args |-> vec]
    ELSE LET path == JoinPath(TempDir, TempName(ManifestPattern, r))
         IN [file |-> [state |-> "open", path |-> path, content |-> <<>>],
             args |-> vec \o <<(<<"--manifest=">> \o path), (<<"--">>)>>]

AddManifestStep ==
    /\ pc = "AddManifest"
    /\ \/ \E r \in 0..MaxRand :
            LET m == AddManifest(entry.mode, args, r)
            IN /\ (entry.mode = "kDirect" => r = 0)
               /\ manifest' = m.file /\ args' = m.args
               /\ pc' = "flags"
               /\ UNCHANGED status_or_code
       \/ /\ entry.mode = "kWrap"
          /\ Fail(ErrorStatus("kUnknown", "TempFile::Create manifest"))
          /\ UNCHANGED <<manifest, args>>
    /\ UNCHANGED <<entry, orig_args_, orig_env_, runfiles_, loop,
                   report_file, child, code, xml_file, clog, result, call,
                   ret>>

\* args.push_back("--quick"); args.push_back("--batch") (exec.cc:356-357,
\* 380-381), and the entry into AddLoadPath.
PushFlags ==
    /\ pc = "flags"
    /\ args' = args \o <<(<<"--quick">>), (<<"--batch">>)>>
    /\ loop' = [i |-> 1, installed |-> FALSE]
    /\ pc' = "AddLoadPath"
    /\ UNCHANGED <<entry, orig_args_, orig_env_, runfiles_, manifest,
                   report_file, child, status_or_code, code, xml_file, clog,
                   result, call, ret>>

\* The arguments that install the file-name handler in front of an
\* unresolved directory (exec.cc:449-455): absl::exchange lets them through
\* only while runfile_handler_installed is still false.
InstallHandlerEveryTime(installed) ==
    <<(<<"--load=">> \o Rlocation(RunfilesElc)),
      (<<"--funcall=elisp/runfiles/install-handler">>)>>

InstallHandler(installed) ==
    IF installed THEN <<>>
    ELSE <<(<<"--load=">> \o Rlocation(RunfilesElc)),
           (<<"--funcall=elisp/runfiles/install-handler">>)>>

\* One iteration of the loop of Executor::AddLoadPath (exec.cc:444-458),
\* or its end (exec.cc:459).
AddLoadPath ==
    /\ pc = "AddLoadPath"
    /\ IF loop.i > Len(entry.load_path)
       THEN /\ pc' = IF entry.name = "RunBinary" THEN "load_files"
                     ELSE "runner"
            /\ loop' = [loop EXCEPT !.i = 1]
            /\ UNCHANGED <<args, runfiles_, status_or_code>>
       ELSE LET dir == entry.load_path[loop.i]
            IN \E o \in RunfileOutcomes(dir) :
                LET known == RunfilesWith(runfiles_, dir, o)
                IN CASE o = "kOk" ->
                        /\ args' = Append(args,
                                          <<"--directory=">> \o Rlocation(dir))
                        /\ runfiles_' = known
                        /\ loop' = [loop EXCEPT !.i = @ + 1]
                        /\ UNCHANGED <<pc, status_or_code>>
                     [] o = "kNotFound" /\ loop.installed ->
                        /\ args' = args \o InstallHandler(loop.installed) \o
                               <<(<<"--directory=/bazel-runfile:">> \o dir)>>
                        /\ runfiles_' = known
                        /\ loop' = [loop EXCEPT !.i = @ + 1]
                        /\ UNCHANGED <<pc, status_or_code>>
                     [] o = "kNotFound" /\ ~loop.installed ->
                        \E h \in (IF RunfilesElc \in DOMAIN known
                                  THEN {known[RunfilesElc]}
                                  ELSE {"kOk", "kNotFound", "kUnknown"}) :
                            /\ runfiles_' = RunfilesWith(known, RunfilesElc, h)
                            /\ IF h = "kOk"
                               THEN /\ args' = args \o
                                      InstallHandler(loop.installed) \o
                                      <<(<<"--directory=/bazel-runfile:">> \o dir)>>
                                    /\ loop' = [i |-> loop.i + 1,
                                                installed |-> TRUE]
                                    /\ UNCHANGED <<pc, status_or_code>>
                               ELSE /\ Fail(RunfileStatus(RunfilesElc, h))
                                    /\ loop' = [loop EXCEPT !.installed = TRUE]
                                    /\ UNCHANGED args
                     [] OTHER ->
                        /\ Fail(RunfileStatus(dir, o))
                        /\ runfiles_' = known
                        /\ UNCHANGED <<args, loop>>
    /\ UNCHANGED <<entry, orig_args_, orig_env_, manifest, report_file, child,
                   code, xml_file, clog, result, call, ret>>

\* The loop over load_files of RunBinary (exec.cc:359-362): the file must
\* resolve, and its logical name is what is passed to --load.
LoadFiles ==
    /\ pc = "load_files"
    /\ IF loop.i > Len(entry.files)
       THEN /\ pc' = "WriteManifest"
            /\ UNCHANGED <<args, runfiles_, loop, status_or_code>>
       ELSE LET file == entry.files[loop.i]
            IN \E o \in RunfileOutcomes(file) :
                /\ runfiles_' = RunfilesWith(runfiles_, file, o)
                /\ IF o = "kOk"
                   THEN /\ args' = Append(args, <<"--load=">> \o file)
                        /\ loop' = [loop EXCEPT !.i = @ + 1]
                        /\ UNCHANGED <<pc, status_or_code>>
                   ELSE /\ Fail(RunfileStatus(file, o))
                        /\ UNCHANGED <<args, loop>>
    /\ UNCHANGED <<entry, orig_args_, orig_env_, manifest, report_file, child,
                   code, xml_file, clog, result, call, ret>>

\* RunTest resolves the test runner and asks for it (exec.cc:383-386).
Runner ==
    /\ pc = "runner"
    /\ \E o \in RunfileOutcomes(RunnerElc) :
        /\ runfiles_' = RunfilesWith(runfiles_, RunnerElc, o)
        /\ IF o = "kOk"
           THEN /\ args' = args \o
                     <<(<<"--load=">> \o Rlocation(RunnerElc)),
                       (<<"--funcall=elisp/ert/run-batch-and-exit">>)>>
                /\ pc' = "report_file"
                /\ UNCHANGED status_or_code
           ELSE /\ Fail(RunfileStatus(RunnerElc, o))
                /\ UNCHANGED args
    /\ UNCHANGED <<entry, orig_args_, orig_env_, loop, manifest, report_file,
                   child, code, xml_file, clog, result, call, ret>>

\* The report file of RunTest (exec.cc:387-394), made only when
\* XML_OUTPUT_FILE is set.
ReportFile ==
    /\ pc = "report_file"
    /\ IF EnvVar("XML_OUTPUT_FILE") = <<>>
       THEN /\ pc' = "srcs"
            /\ UNCHANGED <<args, report_file, status_or_code>>
       ELSE \/ \E r \in 0..MaxRand :
                 LET path == JoinPath(EnvVar("TEST_TMPDIR"),
                                      TempName(ReportPattern, r))
                 IN /\ report_file' = [state |-> "open", path |-> path,
                                       content |-> <<>>]
                    /\ args' = Append(args, <<"--report=/:">> \o path)
                    /\ pc' = "srcs"
                    /\ UNCHANGED status_or_code
            \/ /\ Fail(ErrorStatus("kUnknown", "TempFile::Create report"))
               /\ UNCHANGED <<args, report_file>>
    /\ UNCHANGED <<entry, orig_args_, orig_env_, runfiles_, loop, manifest,
                   child, code, xml_file, clog, result, call, ret>>

\* The loop over srcs of RunTest (exec.cc:395-398).
Srcs ==
    /\ pc = "srcs"
    /\ IF loop.i > Len(entry.files)
       THEN /\ pc' = "WriteManifest"
            /\ UNCHANGED <<args, runfiles_, loop, status_or_code>>
       ELSE LET file == entry.files[loop.i]
            IN \E o \in RunfileOutcomes(file) :
                /\ runfiles_' = RunfilesWith(runfiles_, file, o)
                /\ IF o = "kOk"
                   THEN /\ args' = Append(args, Rlocation(file))
                        /\ loop' = [loop EXCEPT !.i = @ + 1]
                        /\ UNCHANGED <<pc, status_or_code>>
                   ELSE /\ Fail(RunfileStatus(file, o))
                        /\ UNCHANGED <<args, loop>>
    /\ UNCHANGED <<entry, orig_args_, orig_env_, manifest, report_file, child,
                   code, xml_file, clog, result, call, ret>>

\* The output files RunTest declares (exec.cc:400-409); RunBinary declares
\* none (exec.cc:365).
Outputs ==
    IF entry.name # "RunTest" THEN <<>>
    ELSE (IF report_file.state # "none" THEN <<report_file.path>> ELSE <<>>)
         \o (IF EnvVar("COVERAGE") = <<"1">> /\ EnvVar("COVERAGE_DIR") # <<>>
             THEN <<JoinPath(EnvVar("COVERAGE_DIR"), <<"emacs-lisp.dat">>)>>
             ELSE <<>>)

\* std::abort(): the process ends there, nothing is returned.
Abort(message) ==
    /\ clog' = Append(clog, [ok |-> FALSE, code |-> "abort", what |-> message])
    /\ result' = [kind |-> "abort"]
    /\ pc' = "done"

\* if (manifest) WriteManifest(...) (exec.cc:363-366, 399-412, 178-194).
WriteManifest ==
    /\ pc = "WriteManifest"
    /\ IF manifest.state = "none"
       THEN /\ pc' = "Run"
            /\ UNCHANGED <<manifest, status_or_code, clog, result>>
       ELSE LET m == BuildManifest(entry.load_path, entry.files,
                                   entry.data_files, Outputs)
            IN IF m.abort
               THEN /\ Abort("filename is absolute")
                    /\ UNCHANGED <<manifest, status_or_code>>
               ELSE \/ /\ manifest' =
                            [manifest EXCEPT !.content =
                                Append(@, MessageToJsonString(m.message))]
                       /\ pc' = "Run"
                       /\ UNCHANGED <<status_or_code, clog, result>>
                    \/ /\ Fail(ErrorStatus("kUnknown", "WriteManifest"))
                       /\ UNCHANGED <<manifest, clog, result>>
    /\ UNCHANGED <<entry, orig_args_, orig_env_, runfiles_, args, loop,
                   report_file, child, code, xml_file, call, ret>>

\* Pointers (exec.cc:74-89) aborts on an empty string.  A string of the
\* model holds no NUL.
PointersAborts(strings) == \E i \in DOMAIN strings : strings[i] = <<>>

JoinPath3(a, b, c) == JoinPath(JoinPath(a, b), c)

\* The binary and the environment overrides Run is called with
\* (exec.cc:337-345, 367, 413).
Shared == JoinPath(JoinPath3(Rlocation(InstallRel), <<"share">>, <<"emacs">>),
                   <<"27.1">>)

EmacsMap ==
    [n \in {"EMACSDATA", "EMACSDOC", "EMACSLOADPATH", "EMACSPATH"} |->
       CASE n = "EMACSDATA" -> JoinPath(Shared, <<"etc">>)
         [] n = "EMACSDOC" -> JoinPath(Shared, <<"etc">>)
         [] n = "EMACSLOADPATH" -> JoinPath(Shared, <<"lisp">>)
         [] n = "EMACSPATH" -> JoinPath(Rlocation(InstallRel), <<"libexec">>)]

Binary ==
    IF entry.name = "RunEmacs"
    THEN JoinPath3(Rlocation(InstallRel), <<"bin">>, <<"emacs">>)
    ELSE Rlocation(Wrapper)

\* Executor::Run up to posix_spawn (exec.cc:465-475).
Run ==
    /\ pc = "Run"
    /\ LET final_args == BuildArgs(orig_args_, args)
           final_env == BuildEnv(RunfilesEnvVars,
                                 IF entry.name = "RunEmacs" THEN EmacsMap
                                 ELSE <<>>,
                                 orig_env_)
       IN IF PointersAborts(final_args) \/ PointersAborts(final_env)
          THEN /\ Abort("empty string")
               /\ UNCHANGED <<child, status_or_code>>
          ELSE \/ /\ child' = [state |-> "running", binary |-> Binary,
                               argv |-> final_args, envp |-> final_env,
                               status |-> 0]
                  /\ pc' = "waitpid"
                  /\ UNCHANGED <<status_or_code, clog, result>>
               \/ /\ Fail(ErrorStatus("kUnknown", "posix_spawn"))
                  /\ UNCHANGED <<child, clog, result>>
    /\ UNCHANGED <<entry, orig_args_, orig_env_, runfiles_, args, loop,
                   manifest, report_file, code, xml_file, call, ret>>

\* The wait status: an exit status in bits 8-15, or a signal number in
\* bits 0-6.
WIFEXITED(wstatus) == wstatus % 128 = 0

WEXITSTATUS(wstatus) == (wstatus \div 256) % 256

WaitStatuses == {s * 256 : s \in ExitStatuses} \cup {9}

ExitCodeNoSignal(wstatus) == WEXITSTATUS(wstatus)

\* exec.cc:479.
ExitCode(wstatus) ==
    IF WIFEXITED(wstatus) THEN WEXITSTATUS(wstatus) ELSE SignalCode

\* Executor::Run from waitpid on (exec.cc:476-479).  RunEmacs returns what
\* Run returns (exec.cc:345).
Wait ==
    /\ pc = "waitpid"
    /\ \/ \E wstatus \in WaitStatuses :
            /\ child' = [child EXCEPT
                           !.state = IF WIFEXITED(wstatus) THEN "exited"
                                     ELSE "signaled",
                           !.status = wstatus]
            /\ code' = ExitCode(wstatus)
            /\ IF entry.name = "RunEmacs"
               THEN /\ status_or_code' = [kind |-> "ok",
                                          value |-> ExitCode(wstatus)]
                    /\ pc' = "return"
               ELSE /\ pc' = IF report_file.state # "none"
                             THEN "ConvertReport" ELSE "CloseManifest"
                    /\ UNCHANGED status_or_code
       \/ /\ Fail(ErrorStatus("kUnknown", "waitpid"))
          /\ UNCHANGED <<child, code>>
    /\ UNCHANGED <<entry, orig_args_, orig_env_, runfiles_, args, loop,
                   manifest, report_file, xml_file, clog, result, call, ret>>

\* What the child may have left in the report file.
ReportsRead ==
    {<<>>, <<[expected |-> FALSE, status |-> "FAILED"]>>}

\* if (report_file) { ConvertReport; status.Update(Close); RETURN_IF_ERROR }
\* (exec.cc:414-418): the status kept is the first error.
ConvertReport ==
    /\ pc = "ConvertReport"
    /\ \E converted \in BOOLEAN, closed \in BOOLEAN, tests \in ReportsRead :
        /\ (~converted => tests = <<>>)
        /\ xml_file' = IF converted
                       THEN [written |-> TRUE, xml |-> ConvertReportXml(tests)]
                       ELSE xml_file
        /\ report_file' = [report_file EXCEPT !.state = "closed"]
        /\ LET status == IF ~converted
                         THEN ErrorStatus("kUnknown", "ConvertReport")
                         ELSE IF ~closed
                         THEN ErrorStatus("kUnknown", "report_file->Close")
                         ELSE OkStatus
           IN IF status.ok
              THEN pc' = "CloseManifest" /\ UNCHANGED status_or_code
              ELSE Fail(status)
    /\ UNCHANGED <<entry, orig_args_, orig_env_, runfiles_, args, loop,
                   manifest, child, code, clog, result, call, ret>>

\* if (manifest) RETURN_IF_ERROR(manifest->Close()); return code;
\* (exec.cc:368-369, 419-420).
CloseManifest ==
    /\ pc = "CloseManifest"
    /\ IF manifest.state = "none"
       THEN /\ status_or_code' = [kind |-> "ok", value |-> code]
            /\ pc' = "return"
            /\ UNCHANGED manifest
       ELSE /\ manifest' = [manifest EXCEPT !.state = "closed"]
            /\ \/ /\ status_or_code' = [kind |-> "ok", value |-> code]
                  /\ pc' = "return"
               \/ Fail(ErrorStatus("kUnknown", "manifest->Close"))
    /\ UNCHANGED <<entry, orig_args_, orig_env_, runfiles_, args, loop,
                   report_file, child, code, xml_file, clog, result, call,
                   ret>>

\* What the entry point logs when the method failed: the status of
\* status_or_executor (exec.cc:516, 536, 556), which is OK at that point.
LoggedStatus(soc) == OkStatus

EntryResultStatusValue(soc) ==
    IF soc.kind = "error" THEN 0 ELSE soc.value

\* What the entry point returns (exec.cc:515-519, 535-539, 555-559).
EntryResult(soc) ==
    IF soc.kind = "error" THEN EXIT_FAILURE ELSE soc.value

EntryReturn ==
    /\ pc = "return"
    /\ clog' = IF status_or_code.kind = "error"
               THEN Append(clog, LoggedStatus(status_or_code)) ELSE clog
    /\ result' = [kind |-> "returned", value |-> EntryResult(status_or_code)]
    /\ pc' = "done"
    /\ UNCHANGED <<entry, orig_args_, orig_env_, runfiles_, args, loop,
                   manifest, report_file, child, status_or_code, code,
                   xml_file, call, ret>>

Next ==
    \/ RunEmacs \/ RunBinary \/ RunTest
    \/ RunfileWrapper \/ GetSharedDir \/ AddManifestStep \/ PushFlags
    \/ AddLoadPath \/ LoadFiles \/ Runner \/ ReportFile \/ Srcs
    \/ WriteManifest \/ Run \/ Wait \/ ConvertReport \/ CloseManifest
    \/ EntryReturn

Spec == Init /\ [][Next]_vars

(***************************************************************************)
(* Claims about the launcher.                                              *)
(***************************************************************************)
Returns(v) == result = [kind |-> "returned", value |-> v]

ChildTerminated == child.state \in {"exited", "signaled"}

\* The steps that run after the child has terminated.
LaterSteps == {"ConvertReport", "report_file->Close", "manifest->Close"}

\* The steps that run before the child is spawned and can return an error.
EarlierSteps ==
    {"Runfile", "GetSharedDir", "TempFile::Create manifest",
     "TempFile::Create report", "WriteManifest"}

\* C2 as stated: once the child has terminated, the entry point returns
\* its exit status (0xFF after a signal) whatever the later steps do.
C2_ReturnsChildStatus ==
    (pc = "done" /\ ChildTerminated) =>
        Returns(IF child.state = "exited" THEN child.status \div 256
                ELSE 255)

\* C2 amended: when the child was spawned and has terminated and every
\* later step (report conversion, closing the report file, closing the
\* manifest file) succeeds, the entry point returns the exit status s
\* verbatim after a normal termination and 0xFF after a signal; when one
\* of those later steps fails, it returns the failure code 1 instead.
C2_ReturnsChildStatusUnlessLaterStepFails ==
    (pc = "done" /\ ChildTerminated) =>
        IF status_or_code.kind = "error"
        THEN /\ status_or_code.status.what \in LaterSteps
             /\ Returns(1)
        ELSE Returns(IF child.state = "exited" THEN child.status \div 256
                     ELSE 255)

\* RunTest in Wrap mode with a report: the child exits with 7, the report
\* is converted, both files are closed, and 7 is returned.
C2_Witness ==
    /\ pc = "done" /\ entry.name = "RunTest" /\ entry.mode = "kWrap"
    /\ child.state = "exited" /\ child.status = 7 * 256
    /\ xml_file.written /\ report_file.state = "closed"
    /\ manifest.state = "closed"
    /\ Returns(7)

\* C3: when a step before the spawn returns an error (creating the
\* runfiles, resolving a runfile, finding the shared directory, creating a
\* temporary file, writing the manifest), no child is ever spawned and the
\* entry point returns 1.
C3_FailureBeforeSpawn ==
    /\ (status_or_code.kind = "error"
        /\ status_or_code.status.what \in EarlierSteps) =>
            /\ child.state = "none"
            /\ pc \in {"return", "done"}
            /\ (pc = "done" => Returns(1))
    /\ (clog # <<>> /\ clog[1].what = "CreateRunfiles") =>
            /\ child.state = "none"
            /\ pc = "done" /\ Returns(1)

\* The manifest could not be written: nothing was spawned, 1 is returned.
C3_Witness ==
    /\ pc = "done"
    /\ status_or_code.kind = "error"
    /\ status_or_code.status.what = "WriteManifest"
    /\ manifest.state = "open" /\ child.state = "none"
    /\ Returns(1)

HasAbsolute ==
    \E f \in Range(entry.load_path) \cup Range(entry.files)
             \cup Range(entry.data_files) : IsAbsolute(f)

\* The entries a serialized manifest holds under a key.
JsonField(json, key) ==
    IF \E i \in DOMAIN json : json[i][1] = key
    THEN (CHOOSE kv \in Range(json) : kv[1] = key)[2]
    ELSE <<>>

\* C4: every manifest written holds only relative names in loadPath and
\* inputFiles; when WriteManifest is given an absolute load-path entry,
\* load file or data file the process aborts (WriteManifest returns no
\* error), nothing is written to the manifest file and no child is
\* spawned; an absolute name among the output files is written as it is.
C4_ManifestPathSafety ==
    /\ \A i \in DOMAIN manifest.content :
         \A f \in Range(JsonField(manifest.content[i], "loadPath"))
                  \cup Range(JsonField(manifest.content[i], "inputFiles")) :
             ~IsAbsolute(f)
    /\ (manifest.state # "none" /\ HasAbsolute) =>
         /\ manifest.content = <<>>
         /\ child.state = "none"
         /\ pc \notin {"Run", "waitpid", "ConvertReport", "CloseManifest"}
         /\ (status_or_code.kind = "error" =>
                status_or_code.status.what # "WriteManifest")
         /\ (pc = "done" /\ status_or_code.kind = "none" =>
                result = [kind |-> "abort"])
    /\ (manifest.state # "none" /\ ~HasAbsolute /\ pc = "Run") =>
         /\ Len(manifest.content) = 1
         /\ JsonField(manifest.content[1], "outputFiles") = Outputs
         /\ JsonField(manifest.content[1], "loadPath") = entry.load_path
         /\ JsonField(manifest.content[1], "inputFiles")
                = entry.files \o entry.data_files

\* An absolute data file in Wrap mode: WriteManifest was reached, the
\* process aborted, the manifest file is empty and nothing was spawned.
C4_Witness ==
    /\ pc = "done" /\ result = [kind |-> "abort"]
    /\ manifest.state = "open" /\ manifest.content = <<>>
    /\ entry.data_files = <<(<<"/", "c">>)>>
    /\ entry.files = <<>> /\ \A f \in Range(entry.load_path) : ~IsAbsolute(f)
    /\ child.state = "none"

ManifestArg == <<"--manifest=">> \o manifest.path

IsManifestFlag(arg) == StartsWith(arg, <<"--manifest=">>) \/ arg = <<"--">>

\* C5: in Direct mode AddManifest returns no file and leaves the argument
\* list as it was; in Wrap mode, when the temporary file was created, it
\* returns that open file and appends --manifest=<its path> and then --,
\* and nothing else; in RunBinary and RunTest these two are the first two
\* arguments, before --quick --batch and everything added later, and the
\* child receives them right after argv[0].
C5_AddManifest ==
    /\ pc = "flags" =>
         IF entry.mode = "kDirect"
         THEN manifest = NoFile /\ args = <<>>
         ELSE /\ manifest.state = "open" /\ manifest.content = <<>>
              /\ StartsWith(manifest.path, JoinPath(TempDir, <<"manifest-">>))
              /\ EndsWith(manifest.path, <<".json">>)
              /\ args = <<ManifestArg, (<<"--">>)>>
    /\ (entry.name # "none" /\ entry.mode = "kDirect") =>
         /\ manifest = NoFile
         /\ \A i \in DOMAIN args : ~IsManifestFlag(args[i])
         /\ (args # <<>> => SubSeq(args, 1, 2) =
                                <<(<<"--quick">>), (<<"--batch">>)>>)
    /\ manifest.state # "none" =>
         /\ Len(args) >= 2 /\ args[1] = ManifestArg /\ args[2] = <<"--">>
         /\ \A i \in 3..Len(args) : ~IsManifestFlag(args[i])
         /\ (Len(args) > 2 => SubSeq(args, 3, 4) =
                                <<(<<"--quick">>), (<<"--batch">>)>>)
         /\ (child.state # "none" =>
                SubSeq(child.argv, 1, 3) = <<Prog, ManifestArg, (<<"--">>)>>)

\* RunBinary in Wrap mode: the child was spawned with the two arguments
\* right after argv[0].
C5_Witness ==
    /\ entry.name = "RunBinary" /\ entry.mode = "kWrap"
    /\ child.state = "running"
    /\ child.argv[2] = <<"--manifest=", "/", "tmp", "/", "manifest-", "0", "1",
                         ".json">>
    /\ child.argv[3] = <<"--">>
    /\ child.argv[4] = <<"--quick">>

\* The arguments in front of those AddLoadPath adds: in Wrap mode the two
\* of AddManifest, then --quick --batch.
LoadPathBase == IF entry.mode = "kWrap" THEN 4 ELSE 2

Unresolved(k) ==
    {j \in 1..k : runfiles_[entry.load_path[j]] = "kNotFound"}

LoadPathSegment(k) ==
    SubSeq(args, LoadPathBase + 1,
           LoadPathBase + k + (IF Unresolved(k) = {} THEN 0 ELSE 2))

\* --directory=/bazel-runfile: is one atom of the model's strings.
IsDirectoryFlag(arg) ==
    \/ StartsWith(arg, <<"--directory=">>)
    \/ StartsWith(arg, <<"--directory=/bazel-runfile:">>)

HandlerLoad == <<"--load=">> \o Rlocation(RunfilesElc)

HandlerFuncall == <<"--funcall=elisp/runfiles/install-handler">>

DirectoryFlagOf(j) ==
    IF j \in Unresolved(j)
    THEN <<"--directory=/bazel-runfile:">> \o entry.load_path[j]
    ELSE <<"--directory=">> \o Rlocation(entry.load_path[j])

\* What AddLoadPath has emitted once it has gone through k entries.
LoadPathEmitted(k) ==
    LET seg == LoadPathSegment(k)
        dirs == SelectSeq(seg, IsDirectoryFlag)
    IN /\ Len(args) = LoadPathBase + Len(seg)
       /\ \A j \in 1..k : runfiles_[entry.load_path[j]] \in {"kOk", "kNotFound"}
       /\ Len(dirs) = k
       /\ \A j \in 1..k : dirs[j] = DirectoryFlagOf(j)
       /\ Cardinality({i \in DOMAIN seg : seg[i] = HandlerLoad}) <= 1
       /\ Cardinality({i \in DOMAIN seg : seg[i] = HandlerFuncall}) <= 1
       /\ Len(seg) = k + 2 * Cardinality({i \in DOMAIN seg : seg[i] = HandlerLoad})
       /\ IF Unresolved(k) = {}
          THEN \A i \in DOMAIN seg : seg[i] \notin {HandlerLoad, HandlerFuncall}
          ELSE LET first == CHOOSE j \in Unresolved(k) :
                                \A l \in Unresolved(k) : j <= l
               IN /\ seg[first] = HandlerLoad
                  /\ seg[first + 1] = HandlerFuncall
                  /\ seg[first + 2] = DirectoryFlagOf(first)
                  /\ \A j \in 1..(first - 1) : seg[j] = DirectoryFlagOf(j)

\* A step of AddLoadPath in which the entry at hand resolves with an error
\* other than NotFound.
LoadPathResolutionError ==
    /\ pc = "AddLoadPath" /\ loop.i <= Len(entry.load_path)
    /\ entry.load_path[loop.i] \in DOMAIN runfiles_'
    /\ runfiles_'[entry.load_path[loop.i]] \notin {"kOk", "kNotFound"}

\* C11: while AddLoadPath runs and when it ends, the arguments it has added
\* are one --directory= flag for each load-path entry it has gone through,
\* in load-path order, with the resolved absolute path if the entry
\* resolves and /bazel-runfile:<logical> if its resolution is NotFound; the
\* pair --load=<handler>, --funcall=elisp/runfiles/install-handler is there
\* at most once, only if an entry is unresolved, and right before the first
\* --directory=/bazel-runfile: flag; nothing else is added; and a step in
\* which an entry resolves with an error other than NotFound makes
\* AddLoadPath fail with that error, adding nothing.
C11_AddLoadPath ==
    /\ [](pc = "AddLoadPath" => LoadPathEmitted(loop.i - 1))
    /\ [][LoadPathResolutionError =>
            /\ pc' = "return" /\ args' = args
            /\ status_or_code' =
                 [kind |-> "error",
                  status |-> RunfileStatus(entry.load_path[loop.i],
                               runfiles_'[entry.load_path[loop.i]])]]_vars

\* AddLoadPath has gone through two entries that are both unresolved: the
\* handler pair is there once, before the first of the two flags.
C11_Witness ==
    /\ pc = "AddLoadPath" /\ loop.i = 3
    /\ entry.load_path = <<(<<"a">>), (<<"/", "c">>)>>
    /\ Unresolved(2) = {1, 2}
    /\ LoadPathSegment(2) =
         <<HandlerLoad, HandlerFuncall,
           (<<"--directory=/bazel-runfile:", "a">>),
           (<<"--directory=/bazel-runfile:", "/", "c">>)>>

\* The manifest of a call is created once: the file AddManifest returned
\* stays the file of the call.
ManifestCreatedOnce ==
    manifest.state # "none" =>
        /\ entry.mode = "kWrap"
        /\ args[1] = <<"--manifest=">> \o manifest.path
        /\ Cardinality({i \in DOMAIN args :
                           StartsWith(args[i], <<"--manifest=">>)}) = 1

\* The manifest is written at most once, and exactly once before the child
\* is spawned.
ManifestWrittenOnceBeforeSpawn ==
    manifest.state # "none" =>
        /\ Len(manifest.content) <= 1
        /\ (child.state # "none" => Len(manifest.content) = 1)
        /\ (pc \in {"Run", "waitpid", "ConvertReport", "CloseManifest"} =>
               Len(manifest.content) = 1)

\* manifest->Close() is not called before the child has terminated.
ManifestNotClosedEarly == manifest.state = "closed" => ChildTerminated

\* When the entry point has ended, a manifest that was created is closed.
ManifestClosedAtEnd ==
    (pc = "done" /\ manifest.state # "none") => manifest.state = "closed"

C13_LogsFailingStatus ==
    (pc = "done" /\ status_or_code.kind = "error") =>
        /\ Returns(EXIT_FAILURE)
        /\ Len(clog) = 1
        /\ clog[1] = status_or_code.status

====
